---- MODULE Spec2Model ----
(***************************************************************************)
(* corednsprobe: the probe loop of main.go (discovery, the select loop     *)
(* over ctx.Done / probeTicker.C / summaryTicker.C, the per-target probe   *)
(* goroutines and their atomic counters) and the histogram it feeds.       *)
(* Durations are in nanoseconds, as time.Duration is.                      *)
(***************************************************************************)
EXTENDS Integers, Sequences, FiniteSets, TLC

\* mainpc      where main is: "startup" (before StartServer), "discover",
\*             "select" (blocked in the select),
\*             "launch" (in the range over servers), "wait" (in wg.Wait),
\*             "exited" (returned), "fatal" (log.Fatalf); "test" where the
\*             caller is a test of pkg/metrics
\* servers     the discovered addresses, in order
\* stats       one epStats per server
\* idx         the next index of the range over servers
\* wg          the WaitGroup's counter
\* gor         the probe goroutines, in launch order
\* sink        the histogram: a series per (endpoint, status)
\* ctxDone     ctx.Done() is closed
\* probeDue    probeTicker.C holds a tick
\* summaryDue  summaryTicker.C holds a tick
\* ticks       probe ticks taken so far
\* out         the lines printed by the case the loop took last
\* pm          the ProbeMetrics of pkg/metrics: its counters, its histogram,
\*             its server
\* obs         what the callers of pkg/metrics have passed in and read back
VARIABLES mainpc, servers, stats, idx, wg, gor, sink,
          ctxDone, probeDue, summaryDue, ticks, out, pm, obs

vars == <<mainpc, servers, stats, idx, wg, gor, sink,
          ctxDone, probeDue, summaryDue, ticks, out, pm, obs>>

(* ------------------------------ bounds --------------------------------- *)

\* Probe ticks the loop handles before the model stops taking new ones.
MaxTicks == 2

\* Concurrent writers on one record in the stress specification.
StressWriters == 3

\* Probes recorded one after the other on one record in the sequence
\* specification.
MaxSeq == 3

\* Probe ticks the loop handles in the fair specification.
MaxFairTicks == 1

\* Calls of RecordQuery, and reads of /metrics between two of them, that the
\* callers of pkg/metrics make.
MaxCalls == 3

MaxReads == 2

\* Calls of StartServer on one ProbeMetrics.
MaxStarts == 2

\* Addresses the EndpointSlices can hold.
Addrs == {"10.0.0.1", "10.0.0.2"}

(* ------------------------- program constants --------------------------- *)

\* Config.QueryTimeout, default 100ms.
queryTimeout == 100000000

QuerySuccess == "success"

QueryTimeout == "timeout"

QueryError == "error"

Statuses == {QuerySuccess, QueryTimeout, QueryError}

(* --------------------------- environment ------------------------------- *)

\* What resolver.LookupHost returns as its error: nil, an error that wraps
\* context.DeadlineExceeded, or any other error.
Errs == {"nil", "deadline", "other"}

\* time.Since(start) as lookupThrough returns it: exactly the timeout (the
\* largest value that is not over it) or over the timeout.  Every pairing
\* with an error can happen: the deadline runs from the context's creation,
\* the clock from a later time.Now(), and the goroutine may be scheduled
\* late after the lookup.
Rtts == {queryTimeout, queryTimeout + 1}

\* The (rtt, err) pairs lookupThrough can return.
lookupThrough == Rtts \X Errs

(* ------------------------------ epStats -------------------------------- *)

epStats == [total |-> 0, fail |-> 0, rttNanos |-> 0]

\* total is never raised.
AddTotalMissing(st) == st

\* st.total.Add(1)
AddTotal(st) == [st EXCEPT !.total = @ + 1]

\* st.fail.Add(1)
AddFail(st) == [st EXCEPT !.fail = @ + 1]

\* rtt.Milliseconds() in place of rtt.Nanoseconds().
AddRttMillis(st, rtt) == [st EXCEPT !.rttNanos = @ + (rtt \div 1000000)]

\* rttNanos.Store in place of rttNanos.Add.
AddRttStore(st, rtt) == [st EXCEPT !.rttNanos = rtt]

\* st.rttNanos.Add(rtt.Nanoseconds())
AddRtt(st, rtt) == [st EXCEPT !.rttNanos = @ + rtt]

(* --------------------------- metrics sink ------------------------------ *)

\* One histogram series: its sample count and sample sum.  Observe is given
\* float64(rtt.Nanoseconds()) / 1e6; the sum is kept as the numerator of
\* that quotient (nanoseconds), the denominator being NanosPerMilli.
NanosPerMilli == 1000000

NoSeries == [count |-> 0, sumNanos |-> 0]

Observe(series, rtt) ==
    [count |-> series.count + 1, sumNanos |-> series.sumNanos + rtt]

\* Only a success is observed, as by the histogram of successful queries.
RecordQuerySuccessOnly(s, endpoint, status, rtt) ==
    IF status = "success"
    THEN [s EXCEPT ![<<endpoint, status>>] = Observe(@, rtt)]
    ELSE s

\* p.rttHistogram.WithLabelValues(endpoint, string(status)).Observe(...)
RecordQuery(s, endpoint, status, rtt) ==
    [s EXCEPT ![<<endpoint, status>>] = Observe(@, rtt)]

(* ------------------ pkg/metrics: counters and server ------------------- *)

\* metrics.New() of pkg/metrics/metrics.go: two counter vectors and a
\* histogram vector, by endpoint, with no series yet (a series is in its
\* vector once it has been incremented or observed), and no server.
\* listening is the number of goroutines in ListenAndServe.
New ==
    [totalQueriesPerEndpoint |-> [a \in Addrs |-> 0],
     failedQueriesPerEndpoint |-> [a \in Addrs |-> 0],
     rttHistogram |-> [a \in Addrs |-> NoSeries],
     server |-> "nil",
     listening |-> 0]

\* The latency is observed whatever the outcome, as the histogram by
\* endpoint and status does.
RecordQueryObserveAll(p, endpoint, isSuccess, rtt) ==
    LET q == [p EXCEPT !.totalQueriesPerEndpoint[endpoint] = @ + 1,
                       !.rttHistogram[endpoint] = Observe(@, rtt)]
    IN  IF isSuccess
        THEN q
        ELSE [q EXCEPT !.failedQueriesPerEndpoint[endpoint] = @ + 1]

\* RecordQuery(endpoint, isSuccess, rtt) of pkg/metrics/metrics.go.
RecordQueryCounters(p, endpoint, isSuccess, rtt) ==
    LET q == [p EXCEPT !.totalQueriesPerEndpoint[endpoint] = @ + 1]
    IN  IF isSuccess
        THEN [q EXCEPT !.rttHistogram[endpoint] = Observe(@, rtt)]
        ELSE [q EXCEPT !.failedQueriesPerEndpoint[endpoint] = @ + 1]

\* The check of p.server is missing: every call makes a server and forks a
\* goroutine for it.
StartServerAlways(p) ==
    [p |-> [p EXCEPT !.server = "set", !.listening = @ + 1], err |-> "nil"]

\* StartServer(addr): the object after the call and the error returned.
\* With a server already there nothing is done; otherwise p.server is set
\* and ListenAndServe is run in a goroutine of its own.
StartServer(p) ==
    IF p.server # "nil"
    THEN [p |-> p, err |-> "nil"]
    ELSE [p |-> [p EXCEPT !.server = "set", !.listening = @ + 1],
          err |-> "nil"]

\* What a GET of /metrics returns: promhttp gathers the registry, that is
\* every series of the vector that has samples.
GetHandler(h) ==
    {<<k, h[k]>> : k \in {x \in DOMAIN h : h[x].count > 0}}

\* Nothing passed in, nothing read back.
NoCalls == [calls |-> <<>>, reads |-> <<>>, errs |-> <<>>]

(* ------------------------- probe goroutine ----------------------------- *)

\* The elapsed time is not looked at.
IsFailureErrOnly(err, rtt) == err # "nil"

\* The condition of the if at main.go:111.
IsFailure(err, rtt) == err # "nil" \/ rtt > queryTimeout

\* Every failure is taken for a timeout.
FailStatusTimeout(err) == QueryTimeout

\* The status a failed probe is forwarded with (main.go:113-119).
FailStatus(err) == IF err = "deadline" THEN QueryTimeout ELSE QueryError

\* A goroutine as `go func(i, addr)` starts it.  tick, base, fwd and calls
\* are history: the tick that launched it, the record as it was at launch,
\* the statuses it has passed to RecordQuery so far, and the lookups it has
\* made.
NewGoroutine(i, addr, tick, st) ==
    [pc |-> "start", i |-> i, addr |-> addr, rtt |-> 0, err |-> "nil",
     tick |-> tick, base |-> st, fwd |-> <<>>, calls |-> 0]

\* Goroutines, timers and signals live as long as the process does.
Running == mainpc \notin {"exited", "fatal"}

\* A goroutine that has returned.
Exited(r) ==
    [pc |-> "exit", i |-> r.i, addr |-> r.addr, rtt |-> 0, err |-> "nil",
     tick |-> r.tick, base |-> epStats, fwd |-> <<>>, calls |-> r.calls]

\* total as a plain int64: the store follows a load that may be stale.
ProbeTotalRacy(g) ==
    /\ Running
    /\ gor[g].pc = "start"
    /\ \E seen \in 0..stats[gor[g].i].total :
          stats' = [stats EXCEPT ![gor[g].i].total = seen + 1]
    /\ gor' = [gor EXCEPT ![g].pc = "lookup"]
    /\ UNCHANGED <<pm, obs, mainpc, servers, idx, wg, sink, ctxDone, probeDue,
                   summaryDue, ticks, out>>

\* st.total.Add(1)
ProbeTotal(g) ==
    /\ Running
    /\ gor[g].pc = "start"
    /\ stats' = [stats EXCEPT ![gor[g].i] = AddTotal(@)]
    /\ gor' = [gor EXCEPT ![g].pc = "lookup"]
    /\ UNCHANGED <<pm, obs, mainpc, servers, idx, wg, sink, ctxDone, probeDue,
                   summaryDue, ticks, out>>

\* A lookup that failed is made once more.
ProbeLookupRetry(g) ==
    /\ Running
    /\ gor[g].pc = "lookup"
    /\ \E res \in lookupThrough :
          gor' = [gor EXCEPT ![g].pc = "got", ![g].rtt = res[1],
                             ![g].err = res[2],
                             ![g].calls = IF res[2] = "nil"
                                          THEN @ + 1 ELSE @ + 2]
    /\ UNCHANGED <<pm, obs, mainpc, servers, stats, idx, wg, sink, ctxDone, probeDue,
                   summaryDue, ticks, out>>

\* The lookup has no deadline: it returns without a deadline error, or it
\* stays blocked on a resolver that does not answer.
ProbeLookupNoDeadline(g) ==
    /\ Running
    /\ gor[g].pc = "lookup"
    /\ \/ \E res \in lookupThrough :
             /\ res[2] # "deadline"
             /\ gor' = [gor EXCEPT ![g].pc = "got", ![g].rtt = res[1],
                                   ![g].err = res[2], ![g].calls = @ + 1]
       \/ gor' = [gor EXCEPT ![g].pc = "blocked", ![g].calls = @ + 1]
    /\ UNCHANGED <<pm, obs, mainpc, servers, stats, idx, wg, sink, ctxDone,
                   probeDue, summaryDue, ticks, out>>

\* rtt, err := lookupThrough(addr)
ProbeLookup(g) ==
    /\ Running
    /\ gor[g].pc = "lookup"
    /\ \E res \in lookupThrough :
          gor' = [gor EXCEPT ![g].pc = "got", ![g].rtt = res[1],
                             ![g].err = res[2], ![g].calls = @ + 1]
    /\ UNCHANGED <<pm, obs, mainpc, servers, stats, idx, wg, sink, ctxDone, probeDue,
                   summaryDue, ticks, out>>

\* The failure branch is taken but fail is not raised.
ProbeFailNotCounted(g) ==
    /\ Running
    /\ gor[g].pc = "got"
    /\ IsFailure(gor[g].err, gor[g].rtt)
    /\ gor' = [gor EXCEPT ![g].pc = "failed"]
    /\ UNCHANGED <<pm, obs, mainpc, servers, stats, idx, wg, sink, ctxDone,
                   probeDue, summaryDue, ticks, out>>

\* if err != nil || rtt > queryTimeout { st.fail.Add(1)
ProbeFail(g) ==
    /\ Running
    /\ gor[g].pc = "got"
    /\ IsFailure(gor[g].err, gor[g].rtt)
    /\ stats' = [stats EXCEPT ![gor[g].i] = AddFail(@)]
    /\ gor' = [gor EXCEPT ![g].pc = "failed"]
    /\ UNCHANGED <<pm, obs, mainpc, servers, idx, wg, sink, ctxDone, probeDue,
                   summaryDue, ticks, out>>

\* The return after the timeout's RecordQuery is missing: a timeout is
\* forwarded as an error too.
ProbeRecordFailFallThrough(g) ==
    /\ Running
    /\ gor[g].pc = "failed"
    /\ sink' = IF gor[g].err = "deadline"
               THEN RecordQuery(RecordQuery(sink, gor[g].addr, QueryTimeout,
                                            gor[g].rtt),
                                gor[g].addr, QueryError, gor[g].rtt)
               ELSE RecordQuery(sink, gor[g].addr, QueryError, gor[g].rtt)
    /\ gor' = [gor EXCEPT ![g].pc = "return",
                          ![g].fwd = IF gor[g].err = "deadline"
                                     THEN @ \o <<QueryTimeout, QueryError>>
                                     ELSE Append(@, QueryError)]
    /\ UNCHANGED <<pm, obs, mainpc, servers, stats, idx, wg, ctxDone, probeDue,
                   summaryDue, ticks, out>>

\* The latency of a failed probe is summed as well.
ProbeRecordFailWithRtt(g) ==
    /\ Running
    /\ gor[g].pc = "failed"
    /\ sink' = RecordQuery(sink, gor[g].addr, FailStatus(gor[g].err),
                           gor[g].rtt)
    /\ stats' = [stats EXCEPT ![gor[g].i] = AddRtt(@, gor[g].rtt)]
    /\ gor' = [gor EXCEPT ![g].pc = "return",
                          ![g].fwd = Append(@, FailStatus(gor[g].err))]
    /\ UNCHANGED <<pm, obs, mainpc, servers, idx, wg, ctxDone, probeDue,
                   summaryDue, ticks, out>>

\* wg.Done is not deferred and the early returns leave without it.
ProbeRecordFailNoDone(g) ==
    /\ Running
    /\ gor[g].pc = "failed"
    /\ sink' = RecordQuery(sink, gor[g].addr, FailStatus(gor[g].err),
                           gor[g].rtt)
    /\ gor' = [gor EXCEPT ![g] = Exited(@)]
    /\ UNCHANGED <<pm, obs, mainpc, servers, stats, idx, wg, ctxDone, probeDue,
                   summaryDue, ticks, out>>

\* RecordQuery(addr, QueryTimeout, rtt); return, or
\* RecordQuery(addr, QueryError, rtt); return
ProbeRecordFail(g) ==
    /\ Running
    /\ gor[g].pc = "failed"
    /\ sink' = RecordQuery(sink, gor[g].addr, FailStatus(gor[g].err),
                           gor[g].rtt)
    /\ gor' = [gor EXCEPT ![g].pc = "return",
                          ![g].fwd = Append(@, FailStatus(gor[g].err))]
    /\ UNCHANGED <<pm, obs, mainpc, servers, stats, idx, wg, ctxDone, probeDue,
                   summaryDue, ticks, out>>

\* probeMetrics.RecordQuery(addr, metrics.QuerySuccess, rtt)
ProbeRecordSuccess(g) ==
    /\ Running
    /\ gor[g].pc = "got"
    /\ ~IsFailure(gor[g].err, gor[g].rtt)
    /\ sink' = RecordQuery(sink, gor[g].addr, QuerySuccess, gor[g].rtt)
    /\ gor' = [gor EXCEPT ![g].pc = "recorded",
                          ![g].fwd = Append(@, QuerySuccess)]
    /\ UNCHANGED <<pm, obs, mainpc, servers, stats, idx, wg, ctxDone, probeDue,
                   summaryDue, ticks, out>>

\* st.rttNanos.Add(rtt.Nanoseconds())
ProbeRtt(g) ==
    /\ Running
    /\ gor[g].pc = "recorded"
    /\ stats' = [stats EXCEPT ![gor[g].i] = AddRtt(@, gor[g].rtt)]
    /\ gor' = [gor EXCEPT ![g].pc = "return"]
    /\ UNCHANGED <<pm, obs, mainpc, servers, idx, wg, sink, ctxDone, probeDue,
                   summaryDue, ticks, out>>

\* defer wg.Done(): the goroutine is over, its locals are gone.
ProbeDone(g) ==
    /\ Running
    /\ gor[g].pc = "return"
    /\ wg' = wg - 1
    /\ gor' = [gor EXCEPT ![g] = Exited(@)]
    /\ UNCHANGED <<pm, obs, mainpc, servers, stats, idx, sink, ctxDone, probeDue,
                   summaryDue, ticks, out>>

(* ------------------------------- main ---------------------------------- *)

\* The lists of addresses the EndpointSlices can yield: none, one, two
\* different ones, the same one twice.
ServerLists ==
    {<<>>, <<"10.0.0.1">>, <<"10.0.0.1", "10.0.0.2">>,
     <<"10.0.0.1", "10.0.0.1">>}

\* ListenAndServe is run by the caller and no goroutine is forked: the call
\* returns only when the server is closed.
MainStartServerInline ==
    /\ mainpc = "startup"
    /\ pm' = [pm EXCEPT !.server = "set", !.listening = @ + 1]
    /\ mainpc' = "listening"
    /\ UNCHANGED <<obs, servers, stats, idx, wg, gor, sink, ctxDone, probeDue,
                   summaryDue, ticks, out>>

\* if err := probeMetrics.StartServer(ctx, metricsAddr); err != nil {
\* log.Fatalf(...) }: the server is started and main goes on to discovery.
MainStartServer ==
    /\ mainpc = "startup"
    /\ pm' = StartServer(pm).p
    /\ mainpc' = IF StartServer(pm).err = "nil" THEN "discover" ELSE "fatal"
    /\ UNCHANGED <<obs, servers, stats, idx, wg, gor, sink, ctxDone, probeDue,
                   summaryDue, ticks, out>>

\* The check of len(servers) == 0 is missing.
DiscoverOkAny ==
    /\ mainpc = "discover"
    /\ ~ctxDone
    /\ \E list \in ServerLists :
          /\ servers' = list
          /\ stats' = [i \in 1..Len(list) |-> epStats]
    /\ mainpc' = "select"
    /\ UNCHANGED <<pm, obs, idx, wg, gor, sink, ctxDone, probeDue, summaryDue,
                   ticks, out>>

\* List succeeded and found addresses: stats gets one fresh record each and
\* the two tickers are created.
DiscoverOk ==
    /\ mainpc = "discover"
    /\ ~ctxDone
    /\ \E list \in ServerLists :
          /\ Len(list) # 0
          /\ servers' = list
          /\ stats' = [i \in 1..Len(list) |-> epStats]
    /\ mainpc' = "select"
    /\ UNCHANGED <<pm, obs, idx, wg, gor, sink, ctxDone, probeDue, summaryDue,
                   ticks, out>>

\* log.Fatalf: List failed, or no address was found.
DiscoverFatal ==
    /\ mainpc = "discover"
    /\ mainpc' = "fatal"
    /\ UNCHANGED <<pm, obs, servers, stats, idx, wg, gor, sink, ctxDone, probeDue,
                   summaryDue, ticks, out>>

\* SIGINT or SIGTERM: the context of signal.NotifyContext is done.
Cancel ==
    /\ Running
    /\ ~ctxDone
    /\ ctxDone' = TRUE
    /\ UNCHANGED <<pm, obs, mainpc, servers, stats, idx, wg, gor, sink, probeDue,
                   summaryDue, ticks, out>>

\* probeTicker sends on its channel of capacity 1 (a tick is dropped when
\* the channel is full).
ProbeTimer ==
    /\ Running
    /\ mainpc \notin {"startup", "discover"}
    /\ ~probeDue
    /\ probeDue' = TRUE
    /\ UNCHANGED <<pm, obs, mainpc, servers, stats, idx, wg, gor, sink, ctxDone,
                   summaryDue, ticks, out>>

\* summaryTicker sends on its channel.
SummaryTimer ==
    /\ Running
    /\ mainpc \notin {"startup", "discover"}
    /\ ~summaryDue
    /\ summaryDue' = TRUE
    /\ UNCHANGED <<pm, obs, mainpc, servers, stats, idx, wg, gor, sink, ctxDone,
                   probeDue, ticks, out>>

\* Cancellation is also awaited in place of wg.Wait: the loop returns with
\* probes in flight.
SelectDoneAnywhere ==
    /\ mainpc \in {"select", "wait"}
    /\ ctxDone
    /\ mainpc' = "exited"
    /\ out' = <<>>
    /\ UNCHANGED <<pm, obs, servers, stats, idx, wg, gor, sink, ctxDone,
                   probeDue, summaryDue, ticks>>

\* case <-ctx.Done(): return
SelectDone ==
    /\ mainpc = "select"
    /\ ctxDone
    /\ mainpc' = "exited"
    /\ out' = <<>>
    /\ UNCHANGED <<pm, obs, servers, stats, idx, wg, gor, sink, ctxDone, probeDue,
                   summaryDue, ticks>>

\* The goroutines that have not returned.
Alive(gs) == SelectSeq(gs, LAMBDA r : r.pc # "exit")

\* case <-probeTicker.C: var wg sync.WaitGroup; the range over servers
\* begins.  select takes any ready case, so this one can be taken with
\* ctx.Done() ready too.
SelectProbeWithin(bound) ==
    /\ mainpc = "select"
    /\ probeDue
    /\ ticks < bound
    /\ probeDue' = FALSE
    /\ ticks' = ticks + 1
    /\ wg' = 0
    /\ idx' = 1
    /\ gor' = Alive(gor)
    /\ mainpc' = "launch"
    /\ out' = <<>>
    /\ UNCHANGED <<pm, obs, servers, stats, sink, ctxDone, summaryDue>>

\* The case as the model takes it: up to MaxTicks times.
SelectProbe == SelectProbeWithin(MaxTicks)

\* Every goroutine is handed the first record.
LaunchShared ==
    /\ mainpc = "launch"
    /\ idx <= Len(servers)
    /\ wg' = wg + 1
    /\ gor' = Append(gor, NewGoroutine(1, servers[idx], ticks, stats[1]))
    /\ idx' = idx + 1
    /\ mainpc' = IF idx = Len(servers) THEN "wait" ELSE "launch"
    /\ UNCHANGED <<pm, obs, servers, stats, sink, ctxDone, probeDue, summaryDue,
                   ticks, out>>

\* The goroutine reads the loop variable ip instead of its parameter, and
\* the loop has moved on to the last address.
LaunchCaptured ==
    /\ mainpc = "launch"
    /\ idx <= Len(servers)
    /\ wg' = wg + 1
    /\ gor' = Append(gor, NewGoroutine(idx, servers[Len(servers)], ticks,
                                       stats[idx]))
    /\ idx' = idx + 1
    /\ mainpc' = IF idx = Len(servers) THEN "wait" ELSE "launch"
    /\ UNCHANGED <<pm, obs, servers, stats, sink, ctxDone, probeDue,
                   summaryDue, ticks, out>>

\* wg.Add(1); go func(i int, addr string) {...}(idx, ip)
Launch ==
    /\ mainpc = "launch"
    /\ idx <= Len(servers)
    /\ wg' = wg + 1
    /\ gor' = Append(gor, NewGoroutine(idx, servers[idx], ticks, stats[idx]))
    /\ idx' = idx + 1
    /\ mainpc' = IF idx = Len(servers) THEN "wait" ELSE "launch"
    /\ UNCHANGED <<pm, obs, servers, stats, sink, ctxDone, probeDue, summaryDue,
                   ticks, out>>

\* The loop does not wait for the goroutines.
WaitReturnsAtOnce(counter) == TRUE

\* The wait is given up when the context is done.
WaitReturnsOrCancelled(counter) == counter = 0 \/ ctxDone

\* wg.Wait() returns when the counter is zero.
WaitReturns(counter) == counter = 0

Join ==
    /\ mainpc = "wait"
    /\ WaitReturns(wg)
    /\ mainpc' = "select"
    /\ UNCHANGED <<pm, obs, servers, stats, idx, wg, gor, sink, ctxDone, probeDue,
                   summaryDue, ticks, out>>

\* The average is computed without the check of ok.
SummaryLineUnguarded(ip, st) ==
    LET total == st.total
        fail  == st.fail
        sumRTT == st.rttNanos
        ok    == total - fail
    IN  IF total = 0
        THEN [ip |-> ip, text |-> "no queries"]
        ELSE [ip |-> ip, text |-> "success",
              ok |-> ok, total |-> total,
              successPct |-> [num |-> ok, den |-> total, times |-> 100],
              avgRTT |-> [text |-> "ms", num |-> sumRTT, den |-> ok,
                          perMilli |-> NanosPerMilli]]

\* The average is taken over all queries, not over the successes.
SummaryLineOverTotal(ip, st) ==
    LET total == st.total
        fail  == st.fail
        sumRTT == st.rttNanos
        ok    == total - fail
    IN  IF total = 0
        THEN [ip |-> ip, text |-> "no queries"]
        ELSE [ip |-> ip, text |-> "success",
              ok |-> ok, total |-> total,
              successPct |-> [num |-> ok, den |-> total, times |-> 100],
              avgRTT |-> IF ok > 0
                         THEN [text |-> "ms", num |-> sumRTT, den |-> total,
                               perMilli |-> NanosPerMilli]
                         ELSE [text |-> "n/a"]]

\* One line of the summary, from the three loads of a record.  A quotient
\* is kept as what is divided: successPct is num / den * times, the
\* average in milliseconds is num / den / perMilli.  A division is performed
\* exactly where the line holds its operands.
SummaryLine(ip, st) ==
    LET total == st.total
        fail  == st.fail
        sumRTT == st.rttNanos
        ok    == total - fail
    IN  IF total = 0
        THEN [ip |-> ip, text |-> "no queries"]
        ELSE [ip |-> ip, text |-> "success",
              ok |-> ok, total |-> total,
              successPct |-> [num |-> ok, den |-> total, times |-> 100],
              avgRTT |-> IF ok > 0
                         THEN [text |-> "ms", num |-> sumRTT, den |-> ok,
                               perMilli |-> NanosPerMilli]
                         ELSE [text |-> "n/a"]]

\* The counters are cleared after a summary, as a window would be.
SummaryReset ==
    /\ mainpc = "select"
    /\ summaryDue
    /\ summaryDue' = FALSE
    /\ out' = [i \in 1..Len(servers) |-> SummaryLine(servers[i], stats[i])]
    /\ stats' = [i \in 1..Len(servers) |-> epStats]
    /\ UNCHANGED <<pm, obs, mainpc, servers, idx, wg, gor, sink, ctxDone,
                   probeDue, ticks>>

\* The summary runs in a loop of its own, whatever main is doing.
SummaryAnytime ==
    /\ Running
    /\ summaryDue
    /\ summaryDue' = FALSE
    /\ out' = [i \in 1..Len(servers) |-> SummaryLine(servers[i], stats[i])]
    /\ UNCHANGED <<pm, obs, mainpc, servers, stats, idx, wg, gor, sink, ctxDone,
                   probeDue, ticks>>

\* The case prints and then stays in a loop of its own over the summary
\* ticker: the select is not reached again.
SummaryTakesOver ==
    /\ mainpc = "select"
    /\ summaryDue
    /\ summaryDue' = FALSE
    /\ mainpc' = "summary"
    /\ out' = [i \in 1..Len(servers) |-> SummaryLine(servers[i], stats[i])]
    /\ UNCHANGED <<pm, obs, servers, stats, idx, wg, gor, sink, ctxDone,
                   probeDue, ticks>>

\* case <-summaryTicker.C: print one line per server.
Summary ==
    /\ mainpc = "select"
    /\ summaryDue
    /\ summaryDue' = FALSE
    /\ out' = [i \in 1..Len(servers) |-> SummaryLine(servers[i], stats[i])]
    /\ UNCHANGED <<pm, obs, mainpc, servers, stats, idx, wg, gor, sink, ctxDone,
                   probeDue, ticks>>

Init ==
    /\ mainpc = "startup"
    /\ servers = <<>>
    /\ stats = <<>>
    /\ idx = 1
    /\ wg = 0
    /\ gor = <<>>
    /\ sink = [k \in Addrs \X Statuses |-> NoSeries]
    /\ ctxDone = FALSE
    /\ probeDue = FALSE
    /\ summaryDue = FALSE
    /\ ticks = 0
    /\ out = <<>>
    /\ pm = New
    /\ obs = NoCalls

Next ==
    \/ MainStartServer
    \/ DiscoverOk
    \/ DiscoverFatal
    \/ Cancel
    \/ ProbeTimer
    \/ SummaryTimer
    \/ SelectDone
    \/ SelectProbe
    \/ Launch
    \/ Join
    \/ Summary
    \/ \E g \in DOMAIN gor : ProbeTotal(g)
    \/ \E g \in DOMAIN gor : ProbeLookup(g)
    \/ \E g \in DOMAIN gor : ProbeFail(g)
    \/ \E g \in DOMAIN gor : ProbeRecordFail(g)
    \/ \E g \in DOMAIN gor : ProbeRecordSuccess(g)
    \/ \E g \in DOMAIN gor : ProbeRtt(g)
    \/ \E g \in DOMAIN gor : ProbeDone(g)

Spec == Init /\ [][Next]_vars

\* The indices a goroutine can have in gor.
GorIds == UNION {DOMAIN list : list \in ServerLists}

\* The step of goroutine g, whichever it is.
Probe(g) ==
    /\ g \in DOMAIN gor
    /\ \/ ProbeTotal(g)
       \/ ProbeLookup(g)
       \/ ProbeFail(g)
       \/ ProbeRecordFail(g)
       \/ ProbeRecordSuccess(g)
       \/ ProbeRtt(g)
       \/ ProbeDone(g)

\* The straight-line code of main between two selects.
MainStep ==
    MainStartServer \/ DiscoverOk \/ DiscoverFatal \/ Launch \/ Join

NextFair ==
    \/ MainStartServer
    \/ DiscoverOk
    \/ DiscoverFatal
    \/ Cancel
    \/ ProbeTimer
    \/ SummaryTimer
    \/ SelectDone
    \/ SelectProbeWithin(MaxFairTicks)
    \/ Launch
    \/ Join
    \/ Summary
    \/ \E g \in DOMAIN gor : ProbeTotal(g)
    \/ \E g \in DOMAIN gor : ProbeLookup(g)
    \/ \E g \in DOMAIN gor : ProbeFail(g)
    \/ \E g \in DOMAIN gor : ProbeRecordFail(g)
    \/ \E g \in DOMAIN gor : ProbeRecordSuccess(g)
    \/ \E g \in DOMAIN gor : ProbeRtt(g)
    \/ \E g \in DOMAIN gor : ProbeDone(g)

\* What the runtime guarantees.  A goroutine that can run does run: main
\* and every probe goroutine take their next step, a lookup returning at
\* its deadline at the latest (context.WithTimeout, main.go:169), and the
\* List of discovery returning.  The probe ticker keeps firing.  select
\* picks among its ready cases at random, so a case that is ready again and
\* again is taken.  Nothing is assumed of the summary ticker or of signals.
Fairness ==
    /\ WF_vars(MainStep)
    /\ \A g \in GorIds : WF_vars(Probe(g))
    /\ WF_vars(ProbeTimer)
    /\ SF_vars(SelectDone)
    /\ SF_vars(SelectProbeWithin(MaxFairTicks))

SpecFair == Init /\ [][NextFair]_vars /\ Fairness

(* ------------------ concurrent writers on one record ------------------- *)

\* StressWriters probe goroutines, all started on the record of one target,
\* and the loop waiting for them.
InitStress ==
    /\ mainpc = "wait"
    /\ servers = <<"10.0.0.1">>
    /\ stats = <<epStats>>
    /\ idx = 2
    /\ wg = StressWriters
    /\ gor = [g \in 1..StressWriters |->
                 NewGoroutine(1, "10.0.0.1", 1, epStats)]
    /\ sink = [k \in Addrs \X Statuses |-> NoSeries]
    /\ ctxDone = FALSE
    /\ probeDue = FALSE
    /\ summaryDue = FALSE
    /\ ticks = 1
    /\ out = <<>>
    /\ pm = StartServer(New).p
    /\ obs = NoCalls

NextStress ==
    \/ \E g \in DOMAIN gor : ProbeTotal(g)
    \/ \E g \in DOMAIN gor : ProbeLookup(g)
    \/ \E g \in DOMAIN gor : ProbeFail(g)
    \/ \E g \in DOMAIN gor : ProbeRecordFail(g)
    \/ \E g \in DOMAIN gor : ProbeRecordSuccess(g)
    \/ \E g \in DOMAIN gor : ProbeRtt(g)
    \/ \E g \in DOMAIN gor : ProbeDone(g)
    \/ Join

SpecStress == InitStress /\ [][NextStress]_vars

(* ------------------ a sequence of probes on one record ----------------- *)

\* The (rtt, err) pairs the lookups of the sequence return: successes of
\* 10ms, 2.15ms and 2.43ms, a timeout at the deadline, an error after 50ms.
SeqResults ==
    {<<10000000, "nil">>, <<2150000, "nil">>, <<2430000, "nil">>,
     <<queryTimeout, "deadline">>, <<50000000, "other">>}

\* Every goroutine started so far has run its body to the end.
AllReturned == \A g \in DOMAIN gor : gor[g].pc = "return"

\* One target with a fresh record, nothing probed yet.
InitSeq ==
    /\ mainpc = "wait"
    /\ servers = <<"10.0.0.1">>
    /\ stats = <<epStats>>
    /\ idx = 2
    /\ wg = 0
    /\ gor = <<>>
    /\ sink = [k \in Addrs \X Statuses |-> NoSeries]
    /\ ctxDone = FALSE
    /\ probeDue = FALSE
    /\ summaryDue = FALSE
    /\ ticks = 0
    /\ out = <<>>
    /\ pm = StartServer(New).p
    /\ obs = NoCalls

\* The next probe of the target is started when the one before is over.
SeqLaunch ==
    /\ AllReturned
    /\ Len(gor) < MaxSeq
    /\ wg' = wg + 1
    /\ gor' = Append(gor, NewGoroutine(1, servers[1], Len(gor) + 1, stats[1]))
    /\ out' = <<>>
    /\ UNCHANGED <<pm, obs, mainpc, servers, stats, idx, sink, ctxDone, probeDue,
                   summaryDue, ticks>>

\* rtt, err := lookupThrough(addr), with the results of the sequence.
SeqLookup(g) ==
    /\ gor[g].pc = "lookup"
    /\ \E res \in SeqResults :
          gor' = [gor EXCEPT ![g].pc = "got", ![g].rtt = res[1],
                             ![g].err = res[2], ![g].calls = @ + 1]
    /\ UNCHANGED <<pm, obs, mainpc, servers, stats, idx, wg, sink, ctxDone, probeDue,
                   summaryDue, ticks, out>>

\* The snapshot read after the sequence: the lines of a summary.
SeqSnapshot ==
    /\ AllReturned
    /\ out' = [i \in 1..Len(servers) |-> SummaryLine(servers[i], stats[i])]
    /\ UNCHANGED <<pm, obs, mainpc, servers, stats, idx, wg, gor, sink, ctxDone,
                   probeDue, summaryDue, ticks>>

NextSeq ==
    \/ SeqLaunch
    \/ SeqSnapshot
    \/ \E g \in DOMAIN gor : SeqLookup(g)
    \/ \E g \in DOMAIN gor : ProbeTotal(g)
    \/ \E g \in DOMAIN gor : ProbeFail(g)
    \/ \E g \in DOMAIN gor : ProbeRecordFail(g)
    \/ \E g \in DOMAIN gor : ProbeRecordSuccess(g)
    \/ \E g \in DOMAIN gor : ProbeRtt(g)

SpecSeq == InitSeq /\ [][NextSeq]_vars

(* ------------------- the callers of the metrics sink ------------------- *)

\* The elapsed times the callers pass in.
CallRtts == {2150000, 2430000}

\* A fresh histogram by endpoint and status, as the package's test has it.
InitSink ==
    /\ mainpc = "test"
    /\ servers = <<"10.0.0.1">>
    /\ stats = <<epStats>>
    /\ idx = 1
    /\ wg = 0
    /\ gor = <<>>
    /\ sink = [k \in Addrs \X Statuses |-> NoSeries]
    /\ ctxDone = FALSE
    /\ probeDue = FALSE
    /\ summaryDue = FALSE
    /\ ticks = 0
    /\ out = <<>>
    /\ pm = New
    /\ obs = NoCalls

\* RecordQuery(tc.endpoint, q.status, q.rtt)
SinkRecord ==
    /\ Len(obs.calls) < MaxCalls
    /\ \E endpoint \in Addrs, status \in Statuses, rtt \in CallRtts :
          /\ sink' = RecordQuery(sink, endpoint, status, rtt)
          /\ obs' = [obs EXCEPT
                        !.calls = Append(@, <<endpoint, status, rtt>>),
                        !.reads = <<>>]
    /\ UNCHANGED <<pm, mainpc, servers, stats, idx, wg, gor, ctxDone,
                   probeDue, summaryDue, ticks, out>>

\* The read collects and clears the histogram.
SinkScrapeAndReset ==
    /\ Len(obs.reads) < MaxReads
    /\ obs' = [obs EXCEPT !.reads = Append(@, GetHandler(sink))]
    /\ sink' = [k \in Addrs \X Statuses |-> NoSeries]
    /\ UNCHANGED <<pm, mainpc, servers, stats, idx, wg, gor, ctxDone,
                   probeDue, summaryDue, ticks, out>>

\* http.Get(server.URL + "/metrics"): the handler serves what it gathers.
SinkScrape ==
    /\ Len(obs.reads) < MaxReads
    /\ obs' = [obs EXCEPT !.reads = Append(@, GetHandler(sink))]
    /\ UNCHANGED <<pm, mainpc, servers, stats, idx, wg, gor, sink, ctxDone,
                   probeDue, summaryDue, ticks, out>>

NextSink ==
    \/ SinkRecord
    \/ SinkScrape

SpecSink == InitSink /\ [][NextSink]_vars

(* ------------------ the callers of the counter metrics ----------------- *)

\* metrics := New()
InitCounters ==
    /\ mainpc = "test"
    /\ servers = <<"10.0.0.1">>
    /\ stats = <<epStats>>
    /\ idx = 1
    /\ wg = 0
    /\ gor = <<>>
    /\ sink = [k \in Addrs \X Statuses |-> NoSeries]
    /\ ctxDone = FALSE
    /\ probeDue = FALSE
    /\ summaryDue = FALSE
    /\ ticks = 0
    /\ out = <<>>
    /\ pm = New
    /\ obs = NoCalls

\* metrics.RecordQuery(tc.endpoint, q.isSuccess, q.rtt)
CounterRecord ==
    /\ Len(obs.calls) < MaxCalls
    /\ \E endpoint \in Addrs, isSuccess \in BOOLEAN, rtt \in CallRtts :
          /\ pm' = RecordQueryCounters(pm, endpoint, isSuccess, rtt)
          /\ obs' = [obs EXCEPT
                        !.calls = Append(@, <<endpoint, isSuccess, rtt>>)]
    /\ UNCHANGED <<mainpc, servers, stats, idx, wg, gor, sink, ctxDone,
                   probeDue, summaryDue, ticks, out>>

\* err := metrics.StartServer(addr)
CallStartServer ==
    /\ Len(obs.errs) < MaxStarts
    /\ pm' = StartServer(pm).p
    /\ obs' = [obs EXCEPT !.errs = Append(@, StartServer(pm).err)]
    /\ UNCHANGED <<mainpc, servers, stats, idx, wg, gor, sink, ctxDone,
                   probeDue, summaryDue, ticks, out>>

\* ListenAndServe returns an error in its goroutine, which logs a warning
\* and ends; p.server stays set.
ServerStops ==
    /\ pm.listening > 0
    /\ pm' = [pm EXCEPT !.listening = @ - 1]
    /\ UNCHANGED <<obs, mainpc, servers, stats, idx, wg, gor, sink, ctxDone,
                   probeDue, summaryDue, ticks, out>>

NextCounters ==
    \/ CounterRecord
    \/ CallStartServer
    \/ ServerStops

SpecCounters == InitCounters /\ [][NextCounters]_vars

(* ------------------------------ properties ----------------------------- *)

\* The goroutines that have not returned.
InFlight == {g \in DOMAIN gor : gor[g].pc # "exit"}

\* The status a goroutine forwarded, once it has forwarded one.
Outcome(r) == r.fwd[1]

\* C1: in every reachable state, in the middle of a tick too, every
\* target's record has fail <= total.
C1_FailedAtMostTotal ==
    \A i \in DOMAIN stats : stats[i].fail <= stats[i].total

\* A tick in progress: one probe has counted its failure, the other has not
\* started, and the first target's failed has caught up with its total.
C1_Witness ==
    /\ mainpc = "wait"
    /\ \E g, h \in InFlight :
          /\ gor[g].pc = "failed"
          /\ gor[h].pc = "start"
          /\ stats[gor[g].i].total = 2
          /\ stats[gor[g].i].fail = 2

\* C2: a tick never overlaps the previous one.  The probes in flight all
\* belong to the current tick, no two of them are for the same target, and
\* the loop is back at its select, or begins to launch a tick, only with no
\* probe in flight.
C2_NoOverlap ==
    /\ \A g \in InFlight : gor[g].tick = ticks
    /\ \A g, h \in InFlight : g # h => gor[g].i # gor[h].i
    /\ mainpc = "select" => InFlight = {}
    /\ (mainpc = "launch" /\ idx = 1) => InFlight = {}

\* The second tick has both its probes in flight.
C2_Witness ==
    /\ ticks = 2
    /\ Cardinality(InFlight) = 2

\* C3: once cancellation is visible no new tick is started and no probe is
\* launched, a pending probe tick notwithstanding.
C3_NoProbeAfterCancel ==
    [][ctxDone => (ticks' = ticks /\ Len(gor') <= Len(gor))]_vars

\* C4: M goroutines record on one record in any interleaving; when they are
\* joined total is M and fail is the number of outcomes forwarded as timeout
\* or error.
C4_NoLostUpdate ==
    mainpc = "select" =>
        /\ stats[1].total = StressWriters
        /\ stats[1].fail = sink[<<servers[1], QueryTimeout>>].count
                           + sink[<<servers[1], QueryError>>].count
        /\ stats[1].total - stats[1].fail
               = sink[<<servers[1], QuerySuccess>>].count

\* All writers joined, with failures and successes among them.
C4_Witness ==
    /\ mainpc = "select"
    /\ stats[1].total = StressWriters
    /\ stats[1].fail > 0
    /\ stats[1].fail < stats[1].total

\* C5: a completed probe has changed its target's record as recordOutcome
\* prescribes: total by 1, fail by 1 exactly when the outcome is not
\* success, rttNanos by the elapsed time exactly when it is success.
C5_RecordOutcome ==
    \A g \in DOMAIN gor :
        gor[g].pc = "return" =>
            LET r == gor[g]
                st == stats[r.i]
                ok == Outcome(r) = QuerySuccess
            IN  /\ st.total = r.base.total + 1
                /\ st.fail = r.base.fail + (IF ok THEN 0 ELSE 1)
                /\ st.rttNanos = r.base.rttNanos + (IF ok THEN r.rtt ELSE 0)

\* A probe of the second tick has completed with a success, on a record
\* that already held a success.
C5_Witness ==
    \E g \in DOMAIN gor :
        /\ gor[g].pc = "return"
        /\ Outcome(gor[g]) = QuerySuccess
        /\ gor[g].base.total = 1
        /\ gor[g].base.rttNanos > 0

\* C6: rttNanos of a target changes only in the step in which a probe of
\* that target, having forwarded success, adds its elapsed time; that step
\* leaves fail as it is.  No timeout, error, summary or scheduler step
\* changes it.
C6_RttOnlyOnSuccess ==
    [][\A i \in DOMAIN stats :
          stats'[i].rttNanos # stats[i].rttNanos =>
              /\ stats'[i].fail = stats[i].fail
              /\ \E g \in DOMAIN gor :
                    /\ gor[g].i = i
                    /\ gor[g].pc = "recorded"
                    /\ gor[g].fwd = <<QuerySuccess>>
                    /\ gor'[g].pc = "return"
                    /\ stats'[i].rttNanos = stats[i].rttNanos + gor[g].rtt]_vars

\* One record has seen a success and a failure, and a summary was printed.
C6_Witness ==
    /\ Len(out) > 0
    /\ \E i \in DOMAIN stats :
          /\ stats[i].rttNanos > 0
          /\ stats[i].fail > 0

\* C7: total, fail and rttNanos of every target never decrease, whatever
\* the step.
C7_Monotonic ==
    [][\A i \in DOMAIN stats :
          /\ i \in DOMAIN stats'
          /\ stats'[i].total >= stats[i].total
          /\ stats'[i].fail >= stats[i].fail
          /\ stats'[i].rttNanos >= stats[i].rttNanos]_vars

\* A summary has been printed of counters that are not zero, and a tick
\* follows it.
C7_Witness ==
    /\ mainpc = "select"
    /\ Len(out) > 0
    /\ out[1].text = "success"
    /\ stats[1].total = out[1].total
    /\ probeDue
    /\ ticks < MaxTicks

\* The goroutine that takes a step, if one does.
Stepped(g) == g \in DOMAIN gor' /\ gor'[g].pc # gor[g].pc

\* C8: targets are isolated.  Every target has a record of its own, a probe
\* holds the record of the target it was launched for, no two probes in
\* flight hold the same record, and a step changes no record but the one of
\* the probe that takes it.
C8_Isolation ==
    /\ [](/\ Len(stats) = Len(servers)
          /\ \A g \in InFlight :
                /\ gor[g].i \in DOMAIN servers
                /\ servers[gor[g].i] = gor[g].addr
                /\ \A h \in InFlight : h # g => gor[h].i # gor[g].i)
    /\ [][\A j \in DOMAIN stats :
             stats'[j] # stats[j] =>
                 \E g \in InFlight : Stepped(g) /\ gor[g].i = j]_vars

\* In one tick one target's probe has failed and the other's has succeeded;
\* the second target's record shows no failure.
C8_Witness ==
    \E g, h \in InFlight :
        /\ gor[g].pc = "return" /\ Outcome(gor[g]) = QueryError
        /\ gor[h].pc = "return" /\ Outcome(gor[h]) = QuerySuccess
        /\ stats[gor[g].i].fail = 1
        /\ stats[gor[h].i].fail = 0
        /\ stats[gor[h].i].total = 1

\* The samples the sink holds.
SinkCount ==
    LET Sum[S \in SUBSET (Addrs \X Statuses)] ==
            IF S = {} THEN 0
            ELSE LET k == CHOOSE x \in S : TRUE
                 IN  sink[k].count + Sum[S \ {k}]
    IN  Sum[Addrs \X Statuses]

\* The probes issued, over all targets.
TotalCount ==
    LET Sum[n \in 0..Len(stats)] ==
            IF n = 0 THEN 0 ELSE stats[n].total + Sum[n - 1]
    IN  Sum[Len(stats)]

\* C9: every probe is classified as exactly one of success, timeout and
\* error, whatever the lookup returned, and is forwarded to the sink once,
\* under that status: nothing is forwarded before the classification, one
\* status after it, and the sink holds one sample per classified probe.
C9_OneStatusOnce ==
    /\ \A g \in DOMAIN gor :
          /\ gor[g].pc \in {"start", "lookup", "got", "failed"}
                => gor[g].fwd = <<>>
          /\ gor[g].pc \in {"recorded", "return"}
                => Len(gor[g].fwd) = 1 /\ Outcome(gor[g]) \in Statuses
    /\ SinkCount = TotalCount
           - Cardinality({g \in DOMAIN gor :
                             gor[g].pc \in {"lookup", "got", "failed"}})

\* The three statuses have been forwarded, and a probe whose lookup
\* returned no error after more than the timeout has been classified.
C9_Witness ==
    /\ \A st \in Statuses : \E a \in Addrs : sink[<<a, st>>].count > 0
    /\ \E g \in DOMAIN gor :
          /\ gor[g].pc = "return"
          /\ gor[g].err = "nil"
          /\ gor[g].rtt > queryTimeout

\* C10: a probe whose deadline elapsed is forwarded as timeout, also when
\* the lookup returned no error but took longer than the timeout.
C10_DeadlineIsTimeout ==
    \A g \in DOMAIN gor :
        (/\ gor[g].pc = "return"
         /\ \/ gor[g].err = "deadline"
            \/ gor[g].err = "nil" /\ gor[g].rtt > queryTimeout)
        => gor[g].fwd = <<QueryTimeout>>

\* C11: a lookup that fails with an error other than deadline-exceeded is
\* an Error: it raises fail and is forwarded with status error, never with
\* timeout or success, and adds nothing to rttNanos.
C11_OtherErrorIsError ==
    \A g \in DOMAIN gor :
        gor[g].err = "other" =>
            /\ gor[g].pc \in {"failed", "return"}
                  => stats[gor[g].i].fail = gor[g].base.fail + 1
            /\ gor[g].pc = "return"
                  => /\ gor[g].fwd = <<QueryError>>
                     /\ stats[gor[g].i].rttNanos = gor[g].base.rttNanos

\* A lookup failed with another error within the timeout and the probe has
\* forwarded it.
C11_Witness ==
    \E g \in DOMAIN gor :
        /\ gor[g].pc = "return"
        /\ gor[g].err = "other"
        /\ gor[g].rtt <= queryTimeout
        /\ sink[<<gor[g].addr, QueryError>>].count = 1

\* C12: a probe is recorded as Success (forwarded with status success, its
\* elapsed time added to rttNanos, fail untouched) only if its lookup
\* returned no error and took no longer than the timeout; any other probe
\* is forwarded otherwise, raises fail and leaves rttNanos alone.
C12_SuccessOnlyIfInTime ==
    \A g \in DOMAIN gor :
        LET r == gor[g]
            inTime == r.err = "nil" /\ r.rtt <= queryTimeout
        IN  /\ r.pc \in {"recorded", "return"}
                  => (QuerySuccess \in {r.fwd[k] : k \in DOMAIN r.fwd}
                         => inTime)
            /\ r.pc = "return"
                  => /\ stats[r.i].fail = r.base.fail => inTime
                     /\ stats[r.i].rttNanos # r.base.rttNanos => inTime

\* A lookup that took exactly the timeout, without an error, is recorded
\* as a success.
C12_Witness ==
    \E g \in DOMAIN gor :
        /\ gor[g].pc = "return"
        /\ gor[g].fwd = <<QuerySuccess>>
        /\ gor[g].rtt = queryTimeout
        /\ stats[gor[g].i].rttNanos = gor[g].base.rttNanos + queryTimeout

\* C13: the summary never divides by zero.  A line that holds the operands
\* of the percentage was made from a record with total > 0, one that holds
\* the operands of the average from a record with total - fail > 0, and
\* every divisor is positive.
C13_NoDivisionByZero ==
    \A k \in DOMAIN out :
        out[k].text = "success" =>
            /\ stats[k].total > 0
            /\ out[k].successPct.den > 0
            /\ out[k].avgRTT.text = "ms" =>
                  /\ stats[k].total - stats[k].fail > 0
                  /\ out[k].avgRTT.den > 0
                  /\ out[k].avgRTT.perMilli > 0

\* A summary of a target whose probes all failed: the percentage is
\* computed, the average is not.
C13_Witness ==
    \E k \in DOMAIN out :
        /\ out[k].text = "success"
        /\ out[k].ok = 0
        /\ out[k].avgRTT.text = "n/a"

\* C14: a summary prints one line per target, in order.  The line is
\* "no queries" exactly when total = 0; otherwise it shows the counts
\* total - fail and total, the percentage (total - fail) / total * 100, and
\* the average rttNanos / (total - fail) in milliseconds when
\* total - fail > 0, n/a when it is 0.
C14_SummaryLine ==
    out # <<>> =>
        /\ Len(out) = Len(servers)
        /\ \A k \in DOMAIN out :
              LET st == stats[k]
                  line == out[k]
              IN  /\ line.ip = servers[k]
                  /\ line.text = "no queries" <=> st.total = 0
                  /\ st.total # 0 =>
                        /\ line.text = "success"
                        /\ line.ok = st.total - st.fail
                        /\ line.total = st.total
                        /\ line.successPct = [num |-> st.total - st.fail,
                                              den |-> st.total,
                                              times |-> 100]
                        /\ st.total - st.fail > 0 =>
                              line.avgRTT = [text |-> "ms",
                                             num |-> st.rttNanos,
                                             den |-> st.total - st.fail,
                                             perMilli |-> NanosPerMilli]
                        /\ st.total - st.fail = 0 =>
                              line.avgRTT = [text |-> "n/a"]

\* A summary of two targets after two ticks: the first has one success in
\* two probes, the second none.
C14_Witness ==
    /\ Len(out) = 2
    /\ out[1].text = "success" /\ out[1].ok = 1 /\ out[1].total = 2
    /\ out[1].avgRTT.text = "ms"
    /\ out[2].text = "success" /\ out[2].avgRTT.text = "n/a"

\* The step in which the loop handles a summary tick.
SummaryStep == summaryDue /\ ~summaryDue'

\* C15: the summary is read-only: the step that handles a summary tick
\* leaves every epStats, the server list, the sink and the goroutines as
\* they are.
C15_SummaryReadOnly ==
    [][SummaryStep =>
          /\ stats' = stats
          /\ servers' = servers
          /\ sink' = sink
          /\ gor' = gor]_vars

\* A summary has been printed after two ticks; counters and samples are
\* still there.
C15_Witness ==
    /\ out # <<>>
    /\ \A i \in DOMAIN stats : stats[i].total = 2
    /\ SinkCount = 2 * Len(servers)

\* The probes of the sequence that were forwarded as successes.
SeqSuccesses == {g \in DOMAIN gor : gor[g].fwd = <<QuerySuccess>>}

\* The sum of their elapsed times.
SeqSuccessSum ==
    LET Sum[n \in 0..Len(gor)] ==
            IF n = 0 THEN 0
            ELSE (IF n \in SeqSuccesses THEN gor[n].rtt ELSE 0) + Sum[n - 1]
    IN  Sum[Len(gor)]

\* C16: after any sequence of outcomes recorded on a fresh record, total is
\* the length of the sequence, fail the number of outcomes that are not
\* success, rttNanos the sum of the successes' elapsed times, and the
\* snapshot's average that sum over the number of successes.  One success
\* of 10ms gives total 1, failed 0, average 10ms; successes of 2.15ms and
\* 2.43ms give the sum 4.58ms and the average 2.29ms.
C16_SequenceSnapshot ==
    (AllReturned /\ gor # <<>>) =>
        LET st == stats[1]
            n  == Cardinality(SeqSuccesses)
        IN  /\ st.total = Len(gor)
            /\ st.fail = Len(gor) - n
            /\ st.rttNanos = SeqSuccessSum
            /\ out # <<>> =>
                  /\ out[1].total = Len(gor)
                  /\ out[1].ok = n
                  /\ n = 0 => out[1].avgRTT.text = "n/a"
                  /\ n > 0 =>
                        /\ out[1].avgRTT.text = "ms"
                        /\ out[1].avgRTT.num = SeqSuccessSum
                        /\ out[1].avgRTT.den = n
                        /\ out[1].avgRTT.perMilli = NanosPerMilli
            /\ (Len(gor) = 1 /\ gor[1].rtt = 10000000 /\ gor[1].err = "nil"
                   /\ out # <<>>) =>
                  /\ out[1].total = 1
                  /\ out[1].total - out[1].ok = 0
                  /\ out[1].avgRTT.num
                        = 10 * out[1].avgRTT.perMilli * out[1].avgRTT.den
            /\ (Len(gor) = 2 /\ {gor[1].rtt, gor[2].rtt} = {2150000, 2430000})
                  => /\ st.rttNanos = 4580000
                     /\ out # <<>> =>
                           out[1].avgRTT.num = 2290000 * out[1].avgRTT.den

\* The snapshot after successes of 2.15ms and 2.43ms and a timeout.
C16_Witness ==
    /\ AllReturned
    /\ Len(gor) = 3
    /\ gor[1].rtt = 2150000 /\ gor[2].rtt = 2430000
    /\ gor[3].fwd = <<QueryTimeout>>
    /\ out # <<>>
    /\ out[1].total = 3 /\ out[1].ok = 2
    /\ out[1].avgRTT.num = 4580000

\* The goroutines launched for target i in the tick in progress.
ProbesOf(i) == {g \in DOMAIN gor : gor[g].i = i}

\* C17: in every tick every target gets exactly one probe, directed at the
\* target's own address, and a probe calls the resolver exactly once: a
\* failed or timed-out probe is not retried, and a tick raises every
\* target's total by exactly 1.
C17_OneProbeOneLookup ==
    /\ Len(gor) = (IF ticks = 0 THEN 0 ELSE idx - 1)
    /\ \A i \in DOMAIN servers :
          /\ Cardinality(ProbesOf(i))
                = (IF ticks > 0 /\ i < idx THEN 1 ELSE 0)
          /\ stats[i].total
                = (IF \E g \in ProbesOf(i) : gor[g].pc # "start"
                   THEN ticks ELSE IF ticks = 0 THEN 0 ELSE ticks - 1)
    /\ mainpc \in {"wait", "select", "exited"} /\ ticks > 0
          => Len(gor) = Len(servers)
    /\ \A g \in DOMAIN gor :
          /\ gor[g].tick = ticks
          /\ gor[g].addr = servers[gor[g].i]
          /\ gor[g].calls = (IF gor[g].pc \in {"start", "lookup"}
                             THEN 0 ELSE 1)

\* Two ticks are over; the first target failed in both and was probed
\* twice, like the other.
C17_Witness ==
    /\ mainpc = "select"
    /\ ticks = 2
    /\ Len(servers) = 2
    /\ stats[1].fail = 2
    /\ \A i \in DOMAIN stats : stats[i].total = 2
    /\ \A g \in DOMAIN gor : gor[g].calls = 1

\* C18: a probe's failure is contained.  The process aborts only at
\* startup and the loop ends only on cancellation; in a tick every target
\* has its probe, whatever the others' outcomes; and when the probes have
\* all returned, after whatever outcomes, wg.Wait returns and the loop is
\* back at its select, from where the next tick probes every target again.
C18_FailuresContained ==
    /\ mainpc = "fatal" => ticks = 0
    /\ mainpc = "exited" => ctxDone
    /\ mainpc = "wait" => {gor[g].i : g \in DOMAIN gor} = DOMAIN servers
    /\ (mainpc = "wait" /\ InFlight = {}) => ENABLED Join
    /\ (mainpc = "select" /\ ticks > 0) =>
          \A i \in DOMAIN stats : stats[i].total = ticks

\* The second tick is under way for both targets after a first tick in
\* which the first target failed.
C18_Witness ==
    /\ mainpc = "wait"
    /\ ticks = 2
    /\ Len(gor) = 2
    /\ stats[1].fail = 1 /\ stats[1].total = 1
    /\ stats[2].fail = 0
    /\ ~ctxDone

\* C19: when discovery fails or finds no address the process ends at
\* startup: no record, no tick, no probe, no sample, and nothing happens
\* afterwards.  The loop is only ever entered with at least one target.
C19_FatalAtStartup ==
    /\ mainpc = "fatal" =>
          /\ servers = <<>>
          /\ stats = <<>>
          /\ ticks = 0
          /\ gor = <<>>
          /\ SinkCount = 0
          /\ ~ENABLED Next
    /\ mainpc \notin {"startup", "discover", "fatal"} =>
          /\ Len(servers) > 0
          /\ Len(stats) = Len(servers)

\* Discovery has ended the process, with no signal received.
C19_Witness ==
    /\ mainpc = "fatal"
    /\ ~ctxDone

\* C20 as the specification states it: a due summary is handled without
\* waiting for the probes of a tick in progress.
C20_SummaryHandledAtOnce ==
    (Running /\ summaryDue) => ENABLED Summary

\* C20, amended: the two tickers fire independently of each other and of
\* where the loop is, but one loop handles both, a case at a time: a summary
\* tick is handled only at the select, with every probe of the tick before
\* joined, and a probe tick likewise.
C20_OneLoopTwoTickers ==
    /\ []((Running /\ mainpc \notin {"startup", "discover"}) =>
             /\ ~summaryDue => ENABLED SummaryTimer
             /\ ~probeDue => ENABLED ProbeTimer)
    /\ [][SummaryStep =>
             /\ mainpc = "select"
             /\ mainpc' = "select"
             /\ InFlight = {}]_vars
    /\ [][ticks' # ticks => (mainpc = "select" /\ InFlight = {})]_vars

\* A summary tick is due while the probes of a tick are in flight.
C20_Witness ==
    /\ summaryDue
    /\ mainpc = "wait"
    /\ Cardinality(InFlight) = 2

\* C21: nothing in the loop blocks without bound.  Probes are in flight
\* only while the loop launches or waits; a probe that has run its body
\* has forwarded one of the three statuses; and a tick that has started
\* reaches the join: wg.Wait returns and the loop is back at its select,
\* with no probe in flight, so every probe of the tick has finished.
C21_TickTerminates ==
    /\ [](/\ InFlight # {} => mainpc \in {"launch", "wait"}
          /\ mainpc = "select" => InFlight = {}
          /\ \A g \in InFlight :
                gor[g].pc = "return" =>
                    Len(gor[g].fwd) = 1 /\ Outcome(gor[g]) \in Statuses)
    /\ (mainpc \in {"launch", "wait"}) ~> (mainpc = "select")

\* The loop is in wg.Wait with both probes of a tick in their lookups.
C21_Witness ==
    /\ mainpc = "wait"
    /\ Cardinality({g \in InFlight : gor[g].pc = "lookup"}) = 2

\* C22: after the cancellation signal the loop exits.  The signal itself
\* touches no probe, record or sample; a probe in flight goes on to its
\* next step with the signal received; and the loop exits only from its
\* select, with no probe in flight and one sample in the sink for every
\* probe issued.
C22_CancelExits ==
    /\ [][ctxDone' # ctxDone =>
             /\ gor' = gor
             /\ stats' = stats
             /\ sink' = sink
             /\ mainpc' = mainpc]_vars
    /\ [](\A g \in InFlight : ctxDone => ENABLED Probe(g))
    /\ [](mainpc = "exited" =>
             /\ ctxDone
             /\ InFlight = {}
             /\ SinkCount = TotalCount)
    /\ (ctxDone /\ mainpc \in {"select", "launch", "wait"})
          ~> (mainpc = "exited")

\* The signal has arrived with the loop in wg.Wait; one probe has since
\* forwarded a success, the other is still in its lookup.
C22_Witness ==
    /\ ctxDone
    /\ mainpc = "wait"
    /\ \E g, h \in InFlight :
          /\ gor[g].pc = "return" /\ gor[g].fwd = <<QuerySuccess>>
          /\ gor[h].pc = "lookup"

\* The calls made so far with the labels k.
CallsOf(k) == {n \in DOMAIN obs.calls :
                 <<obs.calls[n][1], obs.calls[n][2]>> = k}

\* The sum of their elapsed times.
CallSum(k) ==
    LET Sum[n \in 0..Len(obs.calls)] ==
            IF n = 0 THEN 0
            ELSE (IF n \in CallsOf(k) THEN obs.calls[n][3] ELSE 0) + Sum[n - 1]
    IN  Sum[Len(obs.calls)]

\* C23: a call RecordQuery(endpoint, status, rtt) adds one observation of
\* rtt to the series (endpoint, status) and to no other, whatever the
\* status; after any sequence of calls a series' sample count is the number
\* of calls with its labels and its sum the sum of their rtts (held in
\* nanoseconds, NanosPerMilli to the millisecond).
C23_OneObservationPerCall ==
    /\ [](\A k \in Addrs \X Statuses :
             /\ sink[k].count = Cardinality(CallsOf(k))
             /\ sink[k].sumNanos = CallSum(k))
    /\ [][Len(obs.calls') > Len(obs.calls) =>
             LET c == obs.calls'[Len(obs.calls')]
                 k == <<c[1], c[2]>>
             IN  /\ sink'[k].count = sink[k].count + 1
                 /\ sink'[k].sumNanos = sink[k].sumNanos + c[3]
                 /\ \A x \in (Addrs \X Statuses) \ {k} :
                       sink'[x] = sink[x]]_vars

\* One endpoint has two successes of different rtts and a timeout.
C23_Witness ==
    /\ sink[<<"10.0.0.1", QuerySuccess>>] =
           [count |-> 2, sumNanos |-> 4580000]
    /\ sink[<<"10.0.0.1", QueryTimeout>>].count = 1
    /\ sink[<<"10.0.0.2", QuerySuccess>>].count = 0

SinkEndpoints ==
    {a \in Addrs : \E s \in Statuses : sink[<<a, s>>].count > 0}

\* The discovered targets.
Targets == {servers[i] : i \in DOMAIN servers}

\* C25: the endpoint labels with samples are always among the discovered
\* targets, and once the first tick has been joined they are exactly the
\* discovered targets, whatever the outcomes of the probes.
C25_LabelsAreTargets ==
    /\ SinkEndpoints \subseteq Targets
    /\ (ticks >= 1 /\ (mainpc \in {"select", "exited"} \/ ticks >= 2))
          => SinkEndpoints = Targets

\* The first tick has been joined; both targets failed, one by timeout and
\* one by another error, and both have samples.
C25_Witness ==
    /\ mainpc = "select"
    /\ ticks = 1
    /\ Cardinality(Targets) = 2
    /\ \A i \in DOMAIN stats : stats[i].fail = 1
    /\ sink[<<servers[1], QueryTimeout>>].count = 1
    /\ sink[<<servers[2], QueryError>>].count = 1
    /\ SinkEndpoints = Targets

\* The calls made so far for the endpoint a with the outcome b.
BoolCalls(a, b) ==
    {n \in DOMAIN obs.calls : obs.calls[n][1] = a /\ obs.calls[n][2] = b}

\* C26: RecordQuery(endpoint, isSuccess, rtt) of the counter metrics raises
\* the endpoint's queries_total by 1 in every call, its failed_total by 1
\* exactly when isSuccess is false, and observes rtt in its histogram
\* exactly when isSuccess is true, leaving the other endpoints alone.
\* Hence failed <= total and histogram count = total - failed for every
\* endpoint, an endpoint without a failure has no failed series and one
\* without a success has no histogram series.
C26_CounterRecordQuery ==
    /\ [][Len(obs.calls') > Len(obs.calls) =>
             LET c == obs.calls'[Len(obs.calls')]
                 e == c[1]
             IN  /\ pm'.totalQueriesPerEndpoint[e]
                       = pm.totalQueriesPerEndpoint[e] + 1
                 /\ pm'.failedQueriesPerEndpoint[e]
                       = pm.failedQueriesPerEndpoint[e]
                            + (IF c[2] THEN 0 ELSE 1)
                 /\ pm'.rttHistogram[e]
                       = (IF c[2] THEN Observe(pm.rttHistogram[e], c[3])
                          ELSE pm.rttHistogram[e])
                 /\ \A a \in Addrs \ {e} :
                       /\ pm'.totalQueriesPerEndpoint[a]
                             = pm.totalQueriesPerEndpoint[a]
                       /\ pm'.failedQueriesPerEndpoint[a]
                             = pm.failedQueriesPerEndpoint[a]
                       /\ pm'.rttHistogram[a] = pm.rttHistogram[a]]_vars
    /\ [](\A a \in Addrs :
             /\ pm.failedQueriesPerEndpoint[a]
                   <= pm.totalQueriesPerEndpoint[a]
             /\ pm.rttHistogram[a].count
                   = pm.totalQueriesPerEndpoint[a]
                        - pm.failedQueriesPerEndpoint[a]
             /\ pm.totalQueriesPerEndpoint[a]
                   = Cardinality(BoolCalls(a, TRUE))
                        + Cardinality(BoolCalls(a, FALSE))
             /\ BoolCalls(a, FALSE) = {}
                   => pm.failedQueriesPerEndpoint[a] = 0
             /\ BoolCalls(a, TRUE) = {}
                   => pm.rttHistogram[a] = NoSeries)

\* One endpoint has a success and a failure, the other a failure only and
\* no histogram series.
C26_Witness ==
    /\ pm.totalQueriesPerEndpoint["10.0.0.1"] = 2
    /\ pm.failedQueriesPerEndpoint["10.0.0.1"] = 1
    /\ pm.rttHistogram["10.0.0.1"] = [count |-> 1, sumNanos |-> 2150000]
    /\ pm.totalQueriesPerEndpoint["10.0.0.2"] = 1
    /\ pm.failedQueriesPerEndpoint["10.0.0.2"] = 1
    /\ pm.rttHistogram["10.0.0.2"] = NoSeries

\* C27: StartServer called on a ProbeMetrics that has a server does
\* nothing and returns no error: the object is as before, no second
\* goroutine serves, and a server that was listening still is.
C27_StartServerIdempotent ==
    /\ [][(Len(obs.errs') > Len(obs.errs) /\ pm.server # "nil") =>
             /\ pm' = pm
             /\ obs.errs'[Len(obs.errs')] = "nil"]_vars
    /\ [](pm.listening <= 1)
    /\ [](pm.server = "nil" <=> obs.errs = <<>>)

\* StartServer has been called twice and one server is listening.
C27_Witness ==
    /\ Len(obs.errs) = 2
    /\ pm.server = "set"
    /\ pm.listening = 1

C29_StatsBeforeSink ==
    \A g \in InFlight :
        gor[g].fwd # <<>> =>
            LET r == gor[g]
                st == stats[r.i]
                ok == Outcome(r) = QuerySuccess
            IN  /\ st.total = r.base.total + 1
                /\ st.fail = r.base.fail + (IF ok THEN 0 ELSE 1)
                /\ st.rttNanos = r.base.rttNanos + (IF ok THEN r.rtt ELSE 0)

\* The probes launched for target i so far: one in every tick, the one of
\* the tick in progress once the range over servers has reached i.
Launched(i) ==
    IF ProbesOf(i) # {} \/ ticks = 0 THEN ticks ELSE ticks - 1

\* The probes of target i that are issued and in flight: total is raised,
\* the outcome is not yet in the record.
IssuedOf(i) ==
    {g \in ProbesOf(i) : gor[g].pc \in {"lookup", "got", "recorded"}}

\* The probes of target i that are completed: the outcome is in the record.
CompletedOf(i) ==
    Launched(i)
      - Cardinality({g \in ProbesOf(i) :
                        gor[g].pc \in {"start", "lookup", "got", "recorded"}})

\* The successes of target i whose elapsed time is in rttNanos.  A success
\* took queryTimeout, the one elapsed time of Rtts that is not over it.
RecordedSuccesses(i) == stats[i].rttNanos \div queryTimeout

Idle == mainpc \in {"select", "exited"}

\* C31: whenever the scheduler is Idle no probe is in flight, every target
\* has the same total, the number of ticks started so far, and every
\* target's total is its fail plus the successes whose elapsed time is in
\* rttNanos.
C31_IdleTotals ==
    Idle =>
        /\ InFlight = {}
        /\ \A i \in DOMAIN stats :
              /\ stats[i].total = ticks
              /\ stats[i].total = stats[i].fail + RecordedSuccesses(i)
        /\ \A i, j \in DOMAIN stats : stats[i].total = stats[j].total

\* Idle after two ticks, with a target that succeeded once and failed once
\* and one that succeeded twice.
C31_Witness ==
    /\ mainpc = "select"
    /\ ticks = 2
    /\ Len(stats) = 2
    /\ stats[1].fail = 1 /\ RecordedSuccesses(1) = 1
    /\ stats[2].fail = 0 /\ RecordedSuccesses(2) = 2

\* C32: the summary reads the records only with no probe in flight: it is
\* a case of the loop that runs the ticks, taken at the select after the
\* join.  So what it prints is exact across the three fields: the ok count
\* total - fail of a line is the number of successes summed in rttNanos,
\* and the average is taken of exactly those.
C32_SummaryExact ==
    /\ [][SummaryStep =>
             /\ mainpc = "select"
             /\ InFlight = {}
             /\ wg = 0]_vars
    /\ [](\A k \in DOMAIN out :
             out[k].text = "success" =>
                 /\ out[k].ok = RecordedSuccesses(k)
                 /\ out[k].total - out[k].ok = stats[k].fail
                 /\ out[k].avgRTT.text = "ms" =>
                       /\ out[k].avgRTT.den = RecordedSuccesses(k)
                       /\ out[k].avgRTT.num = stats[k].rttNanos
                       /\ out[k].avgRTT.num = out[k].ok * queryTimeout)

\* A summary printed between the first tick and the second, of a target
\* with a success and a target with a failure.
C32_Witness ==
    /\ mainpc = "select"
    /\ ticks = 1
    /\ Len(out) = 2
    /\ out[1].text = "success" /\ out[1].ok = 1
    /\ out[1].avgRTT.text = "ms"
    /\ out[2].text = "success" /\ out[2].ok = 0
    /\ probeDue

\* The discovered addresses are pairwise distinct.
Distinct == \A i, j \in DOMAIN servers : servers[i] = servers[j] => i = j

\* C33: whenever the scheduler is Idle and the discovered addresses are
\* pairwise distinct, the sink agrees with the record of every target: its
\* success samples are total - fail in number and rttNanos in sum, and its
\* timeout and error samples together are fail in number.
C33_SinkAgreesWithStats ==
    (Idle /\ Distinct) =>
        \A i \in DOMAIN stats :
            LET a == servers[i]
            IN  /\ sink[<<a, QuerySuccess>>].count
                      = stats[i].total - stats[i].fail
                /\ sink[<<a, QueryTimeout>>].count
                      + sink[<<a, QueryError>>].count = stats[i].fail
                /\ sink[<<a, QuerySuccess>>].sumNanos = stats[i].rttNanos

\* Idle after two ticks on two addresses: the first target timed out and
\* then failed with another error, the second succeeded and timed out.
C33_Witness ==
    /\ mainpc = "select"
    /\ ticks = 2
    /\ Len(servers) = 2 /\ Distinct
    /\ sink[<<servers[1], QueryTimeout>>].count = 1
    /\ sink[<<servers[1], QueryError>>].count = 1
    /\ stats[1].fail = 2
    /\ sink[<<servers[2], QuerySuccess>>].count = 1
    /\ sink[<<servers[2], QueryTimeout>>].count = 1
    /\ stats[2].rttNanos = queryTimeout

\* C34: cancellation is observed only between ticks.  With the signal
\* received in the middle of a tick the loop still launches every probe
\* and waits until the counter is zero; it exits only from its select.  So
\* when the loop has exited no probe is in flight, and every probe ever
\* started has its outcome in its record and its sample in the sink.
C34_ExitOnlyBetweenTicks ==
    /\ [][(ctxDone /\ mainpc' # mainpc) =>
             /\ mainpc = "launch" => mainpc' \in {"launch", "wait"}
             /\ mainpc = "wait" => (mainpc' = "select" /\ wg = 0)
             /\ mainpc' = "exited" => mainpc = "select"]_vars
    /\ []((ctxDone /\ mainpc \in {"launch", "wait"}) => ~ENABLED SelectDone)
    /\ [](mainpc = "exited" =>
             /\ \A g \in DOMAIN gor : gor[g].pc = "exit"
             /\ wg = 0
             /\ \A i \in DOMAIN stats :
                   /\ stats[i].total = ticks
                   /\ stats[i].fail + RecordedSuccesses(i) = ticks
             /\ SinkCount = ticks * Len(servers))

\* The loop has exited after two ticks on two targets.
C34_Witness ==
    /\ mainpc = "exited"
    /\ ticks = 2
    /\ Len(servers) = 2
    /\ SinkCount = 4

====
